---- MODULE Spec2Model ----
(***************************************************************************)
(* Model of the semaphore library of lipsquirrel (libs/semaphore):         *)
(* SimpleSemaphore and SimpleGeneratorSemaphore, together with the callers *)
(* (performTask) of the README and of the unit tests, running on a         *)
(* single-threaded event loop: one action is one job of the loop.          *)
(***************************************************************************)
EXTENDS Integers, Sequences, FiniteSets, TLC

\* --------------------------------------------------------------- bounds
NumTasks == 3
MaxCapacity == 2
TestTasks == 4
MaxGrants == 5
MaxStrays == 2
MaxNesting == 1
MaxListeners == 2
MaxOthers == 1
MaxDeficit == 1
MaxRound == 3

Variants == {"promise", "generator"}

VARIABLES
    variant,     \* which class the callers use: SimpleSemaphore or SimpleGeneratorSemaphore
    max,         \* the constructor's argument
    n,           \* number of tasks the caller program creates
    sem,         \* the semaphore object: [count, tasks]
    pc,          \* each task's position in performTask
    microtasks,  \* the loop's microtask queue: promise reactions resuming granted tasks
    waitOrder,   \* arrival order of the requests that are not granted yet
    iter,        \* each task's iterator: "none", advanced "once" or "again", or "ended"
    timers,      \* setTimeout callbacks of the tasks inside the protected section
    log,         \* the tests' log array
    twin,        \* one semaphore of each class, driven by the same calls
    strays,      \* number of release() calls made so far by code that held no slot
    outer,       \* slots each task still holds from earlier, unreleased acquires
    mug,         \* the Mug object: [state, listeners, listenerIdCounter]
    hook,        \* one component using useMug: its position, key, local state, cleanup
    trace,       \* what the latest operation on the Mug did, in order
    handles,     \* the unsubscribe functions subscribe() has returned, by listener id
    unsubs,      \* ids of the unsubscribe functions that have been called
    lastSet,     \* per key, the value of the latest setState call, or the initial one
    at           \* per task, the statements of acquire it was suspended before

vars == <<variant, max, n, sem, pc, microtasks, waitOrder, iter, timers, log, twin,
          strays, outer, mug, hook, trace, handles, unsubs, lastSet, at>>

Tasks == 1..n

\* ------------------------------------------------------- SimpleSemaphore
\* Faulty constructor: a capacity below 1 is raised to 1.
SimpleSemaphore_constructor_atLeastOne(m) ==
    [count |-> IF m < 1 THEN 1 ELSE m, tasks |-> <<>>]

SimpleSemaphore_constructor(m) == [count |-> m, tasks |-> <<>>]

\* Faulty acquire: the test is off by one, a slot is granted at count 0.
SimpleSemaphore_acquire_offByOne(s, t) ==
    IF s.count >= 0
    THEN [sem |-> [s EXCEPT !.count = @ - 1], settled |-> TRUE, done |-> FALSE]
    ELSE [sem |-> [s EXCEPT !.tasks = Append(@, t)], settled |-> FALSE, done |-> FALSE]

\* Faulty acquire: unshift() instead of push(), the newest request is first.
SimpleSemaphore_acquire_unshifts(s, t) ==
    IF s.count > 0
    THEN [sem |-> [s EXCEPT !.count = @ - 1], settled |-> TRUE, done |-> FALSE]
    ELSE [sem |-> [s EXCEPT !.tasks = <<t>> \o @], settled |-> FALSE, done |-> FALSE]

\* Faulty acquire: tests count > 1, so the last free slot is never granted.
SimpleSemaphore_acquire_testsOne(s, t) ==
    IF s.count > 1
    THEN [sem |-> [s EXCEPT !.count = @ - 1], settled |-> TRUE, done |-> FALSE]
    ELSE [sem |-> [s EXCEPT !.tasks = Append(@, t)], settled |-> FALSE, done |-> FALSE]

\* Faulty acquire: the executor pushes resolve and calls it at once.
SimpleSemaphore_acquire_resolvesQueued(s, t) ==
    IF s.count > 0
    THEN [sem |-> [s EXCEPT !.count = @ - 1], settled |-> TRUE, done |-> FALSE]
    ELSE [sem |-> [s EXCEPT !.tasks = Append(@, t)], settled |-> TRUE, done |-> FALSE]

\* acquire(): `settled' tells whether the returned promise is already resolved.
SimpleSemaphore_acquire(s, t) ==
    IF s.count > 0
    THEN [sem |-> [s EXCEPT !.count = @ - 1], settled |-> TRUE, done |-> FALSE]
    ELSE [sem |-> [s EXCEPT !.tasks = Append(@, t)], settled |-> FALSE, done |-> FALSE]

\* Faulty release: gives the slot back to count although it hands it to a waiter.
SimpleSemaphore_release_alsoCounts(s) ==
    IF Len(s.tasks) > 0
    THEN [sem |-> [s EXCEPT !.tasks = Tail(@), !.count = @ + 1],
          woken |-> <<Head(s.tasks)>>]
    ELSE [sem |-> [s EXCEPT !.count = @ + 1], woken |-> <<>>]

\* Faulty release: resolves every waiting request, not only the head.
SimpleSemaphore_release_wakesAll(s) ==
    IF Len(s.tasks) > 0
    THEN [sem |-> [s EXCEPT !.tasks = <<>>], woken |-> s.tasks]
    ELSE [sem |-> [s EXCEPT !.count = @ + 1], woken |-> <<>>]

\* Faulty release: pop() instead of shift(), the newest waiter is served.
SimpleSemaphore_release_pops(s) ==
    IF Len(s.tasks) > 0
    THEN [sem |-> [s EXCEPT !.tasks = SubSeq(@, 1, Len(@) - 1)],
          woken |-> <<s.tasks[Len(s.tasks)]>>]
    ELSE [sem |-> [s EXCEPT !.count = @ + 1], woken |-> <<>>]

\* release(): `woken' lists the resolve functions it called.
\* Faulty release: calls tasks[0] and leaves it in the queue.
SimpleSemaphore_release_peeks(s) ==
    IF Len(s.tasks) > 0
    THEN [sem |-> s, woken |-> <<Head(s.tasks)>>]
    ELSE [sem |-> [s EXCEPT !.count = @ + 1], woken |-> <<>>]

\* Faulty release: the slot goes back to count and the waiter takes it later.
SimpleSemaphore_release_viaCount(s) ==
    IF Len(s.tasks) > 0
    THEN [sem |-> [s EXCEPT !.tasks = Tail(@), !.count = @ + 1],
          woken |-> <<Head(s.tasks)>>]
    ELSE [sem |-> [s EXCEPT !.count = @ + 1], woken |-> <<>>]

SimpleSemaphore_release(s) ==
    IF Len(s.tasks) > 0
    THEN [sem |-> [s EXCEPT !.tasks = Tail(@)], woken |-> <<Head(s.tasks)>>]
    ELSE [sem |-> [s EXCEPT !.count = @ + 1], woken |-> <<>>]

\* ---------------------------------------------- SimpleGeneratorSemaphore
SimpleGeneratorSemaphore_constructor(m) == [count |-> m, tasks |-> <<>>]

\* Faulty acquire: takes the slot before the test, also when it must queue.
SimpleGeneratorSemaphore_acquire_decrementsFirst(s, t) ==
    IF s.count > 0
    THEN [sem |-> [s EXCEPT !.count = @ - 1], settled |-> TRUE, done |-> FALSE]
    ELSE [sem |-> [s EXCEPT !.count = @ - 1, !.tasks = Append(@, t)],
          settled |-> FALSE, done |-> FALSE]

\* Faulty acquire: grants a free slot without taking it from count.
SimpleGeneratorSemaphore_acquire_keepsCount(s, t) ==
    IF s.count > 0
    THEN [sem |-> s, settled |-> TRUE, done |-> FALSE]
    ELSE [sem |-> [s EXCEPT !.tasks = Append(@, t)], settled |-> FALSE, done |-> FALSE]

\* Faulty acquire: the test is off by one, a slot is granted at count 0.
SimpleGeneratorSemaphore_acquire_offByOne(s, t) ==
    IF s.count >= 0
    THEN [sem |-> [s EXCEPT !.count = @ - 1], settled |-> TRUE, done |-> FALSE]
    ELSE [sem |-> [s EXCEPT !.tasks = Append(@, t)], settled |-> FALSE, done |-> FALSE]

\* One advance (next()) of the generator returned by acquire(): one turn of
\* the while (true) loop up to its yield. The result is never done.
SimpleGeneratorSemaphore_acquire(s, t) ==
    IF s.count > 0
    THEN [sem |-> [s EXCEPT !.count = @ - 1], settled |-> TRUE, done |-> FALSE]
    ELSE [sem |-> [s EXCEPT !.tasks = Append(@, t)], settled |-> FALSE, done |-> FALSE]

\* Faulty generator without the while (true): the second advance ends it.
SimpleGeneratorSemaphore_next_returns(s, t) ==
    [sem |-> s, settled |-> FALSE, done |-> TRUE]

\* A later advance of the same generator: it resumes after its yield and
\* while (true) takes it through the loop body again.
SimpleGeneratorSemaphore_next(s, t) == SimpleGeneratorSemaphore_acquire(s, t)

\* Faulty release: pop() instead of shift(), the newest waiter is served.
SimpleGeneratorSemaphore_release_pops(s) ==
    IF Len(s.tasks) > 0
    THEN [sem |-> [s EXCEPT !.tasks = SubSeq(@, 1, Len(@) - 1)],
          woken |-> <<s.tasks[Len(s.tasks)]>>]
    ELSE [sem |-> [s EXCEPT !.count = @ + 1], woken |-> <<>>]

\* Faulty release: removes the head waiter and never calls it.
SimpleGeneratorSemaphore_release_dropsWaiter(s) ==
    IF Len(s.tasks) > 0
    THEN [sem |-> [s EXCEPT !.tasks = Tail(@)], woken |-> <<>>]
    ELSE [sem |-> [s EXCEPT !.count = @ + 1], woken |-> <<>>]

\* Faulty release: without the else branch, a release on an empty queue is lost.
SimpleGeneratorSemaphore_release_noElse(s) ==
    IF Len(s.tasks) > 0
    THEN [sem |-> [s EXCEPT !.tasks = Tail(@)], woken |-> <<Head(s.tasks)>>]
    ELSE [sem |-> s, woken |-> <<>>]

\* Faulty release: gives the slot back to count although it hands it to a waiter.
SimpleGeneratorSemaphore_release_alsoCounts(s) ==
    IF Len(s.tasks) > 0
    THEN [sem |-> [s EXCEPT !.tasks = Tail(@), !.count = @ + 1],
          woken |-> <<Head(s.tasks)>>]
    ELSE [sem |-> [s EXCEPT !.count = @ + 1], woken |-> <<>>]

SimpleGeneratorSemaphore_release(s) ==
    IF Len(s.tasks) > 0
    THEN [sem |-> [s EXCEPT !.tasks = Tail(@)], woken |-> <<Head(s.tasks)>>]
    ELSE [sem |-> [s EXCEPT !.count = @ + 1], woken |-> <<>>]

\* ------------------------------------------------------------- dispatch
\* Faulty acquire(): a plain async function that runs the first grant cycle
\* when it is called.
SimpleGeneratorSemaphore_acquire_call_eager(s, t) ==
    [sem |-> SimpleGeneratorSemaphore_acquire(s, t).sem, started |-> TRUE]

\* acquire() is called: an async generator function returns its iterator
\* and runs nothing of its body.
SimpleGeneratorSemaphore_acquire_call(s, t) == [sem |-> s, started |-> FALSE]

\* Faulty generator with try/finally around the loop: closing it releases.
SimpleGeneratorSemaphore_return_releases(s) == SimpleGeneratorSemaphore_release(s)

\* return() of the iterator, which break calls: the generator is suspended at
\* a yield inside no try block, so it just ends.
SimpleGeneratorSemaphore_return(s) == [sem |-> s, woken |-> <<>>]

Construct(v, m) ==
    IF v = "promise" THEN SimpleSemaphore_constructor(m)
    ELSE SimpleGeneratorSemaphore_constructor(m)

AcquireOf(v, s, t) ==
    IF v = "promise" THEN SimpleSemaphore_acquire(s, t)
    ELSE SimpleGeneratorSemaphore_acquire(s, t)

ReleaseOf(v, s) ==
    IF v = "promise" THEN SimpleSemaphore_release(s)
    ELSE SimpleGeneratorSemaphore_release(s)

\* Promise jobs between the grant and the caller's continuation.
\* promise: `await semaphore.acquire()' is one reaction job.
\* generator: yield awaits its operand (one job), then the for-await's await of
\* the next() result (one job); a queued request first resumes the generator
\* after its own await (one more job).
ResumeTicks(v, queued) ==
    IF v = "promise" THEN 1 ELSE IF queued THEN 3 ELSE 2

\* ------------------------------------------------------------- helpers
Range(s) == {s[i] : i \in 1..Len(s)}

RECURSIVE Without(_, _)
Without(s, S) ==
    IF s = <<>> THEN <<>>
    ELSE IF Head(s) \in S THEN Without(Tail(s), S)
    ELSE <<Head(s)>> \o Without(Tail(s), S)

RECURSIVE Reactions(_, _)
Reactions(woken, v) ==
    IF woken = <<>> THEN <<>>
    ELSE <<[task |-> Head(woken), ticks |-> ResumeTicks(v, TRUE)]>>
         \o Reactions(Tail(woken), v)

\* ------------------------------------------------------ steps of a task
\* The task calls acquire (or advances its iterator) and awaits the result r.
Requested(t, r) ==
    /\ sem' = r.sem
    /\ pc' = [pc EXCEPT ![t] = IF r.settled THEN "granted" ELSE "waiting"]
    /\ microtasks' =
         IF r.settled
         THEN Append(microtasks, [task |-> t, ticks |-> ResumeTicks(variant, FALSE)])
         ELSE microtasks
    /\ waitOrder' = IF r.settled THEN waitOrder ELSE Append(waitOrder, t)
    /\ iter' = [iter EXCEPT ![t] =
                  IF variant = "promise" THEN "none"
                  ELSE IF r.done THEN "ended"
                  ELSE IF pc[t] = "yielded" THEN "again" ELSE "once"]

\* The task ends its protected section, calls release() and goes to `after'.
Released(t, r, after) ==
    /\ sem' = r.sem
    /\ pc' = [u \in Tasks |->
                IF u = t THEN after
                ELSE IF u \in Range(r.woken) THEN "granted"
                ELSE pc[u]]
    /\ microtasks' = microtasks \o Reactions(r.woken, variant)
    /\ waitOrder' = Without(waitOrder, Range(r.woken))

\* The head job of the microtask queue runs: a link of the promise chain, or
\* the continuation of the task, which enters its protected section.
Resumed ==
    /\ microtasks # <<>>
    /\ LET m == Head(microtasks) IN
         IF m.ticks > 1
         THEN /\ microtasks' = Append(Tail(microtasks), [m EXCEPT !.ticks = @ - 1])
              /\ UNCHANGED pc
         ELSE /\ microtasks' = Tail(microtasks)
              /\ pc' = [pc EXCEPT ![m.task] = "holding"]
    /\ UNCHANGED <<sem, waitOrder, iter>>

Starting == microtasks # <<>> /\ Head(microtasks).ticks = 1

\* The twin semaphores are not used outside SpecEquiv.
NoTwin == <<>>

\* ------------------------------------------------------------------- Mug
\* Keys of the state type T and the values stored under them; 0 is a falsy
\* value, undefined is JavaScript's undefined.
Keys == {"count", "user"}
Values == {0, 1}
undefined == -1

\* What a subscribed function does when it is called: nothing but take the
\* value, throw, or call mug.setState(key, 0) for any other value; "setState"
\* is the state setter of the component using useMug.
Listeners == {"plain", "throws", "resets"}

EmptyMap == [x \in {} |-> undefined]
Put(o, k, v) == [x \in DOMAIN o \cup {k} |-> IF x = k THEN v ELSE o[x]]
Delete(o, k) == [x \in DOMAIN o \ {k} |-> o[x]]

\* Object.values(): the values of the integer keys in ascending order.
RECURSIVE Ascending(_)
Ascending(S) ==
    IF S = {} THEN <<>>
    ELSE LET i == CHOOSE x \in S : \A y \in S : x <= y
         IN <<i>> \o Ascending(S \ {i})

Object_values(o) ==
    LET ids == Ascending(DOMAIN o)
    IN [i \in 1..Len(ids) |-> [id |-> ids[i], listener |-> o[ids[i]]]]

\* new Mug(initialState): `given' is false when the argument is left out.
Mug_constructor(given, initialState) ==
    [state |-> IF given THEN initialState ELSE EmptyMap,
     listeners |-> EmptyMap,
     listenerIdCounter |-> 0]

\* Faulty getState: a falsy stored value reads as undefined.
Mug_getState_truthy(m, key) ==
    IF key \in DOMAIN m.state /\ m.state[key] # 0 THEN m.state[key] ELSE undefined

Mug_getState(m, key) == IF key \in DOMAIN m.state THEN m.state[key] ELSE undefined

\* subscribe(key, listener): the new Mug and the closure it returns, which
\* holds key, id and listener.
Mug_subscribe(m, key, listener) ==
    LET ls == IF key \in DOMAIN m.listeners THEN m.listeners
              ELSE Put(m.listeners, key, EmptyMap)
        id == m.listenerIdCounter + 1
    IN [mug |-> [m EXCEPT !.listeners = Put(ls, key, Put(ls[key], id, listener)),
                          !.listenerIdCounter = id],
        unsubscribe |-> [key |-> key, id |-> id, listener |-> listener]]

\* Faulty unsubscribe: deletes every listener of the key.
Mug_unsubscribe_deletesKey(m, u) ==
    IF u.key \in DOMAIN m.listeners /\ u.id \in DOMAIN m.listeners[u.key]
    THEN [m EXCEPT !.listeners = Delete(@, u.key)]
    ELSE m

\* Faulty unsubscribe: tests the listener and leaves it in place.
Mug_unsubscribe_keeps(m, u) == m

\* The function subscribe() returned, called.
Mug_unsubscribe(m, u) ==
    IF u.key \in DOMAIN m.listeners /\ u.id \in DOMAIN m.listeners[u.key]
    THEN [m EXCEPT !.listeners = Put(@, u.key, Delete(@[u.key], u.id))]
    ELSE m

MugEvent(e, c, k, i, v) == [ev |-> e, call |-> c, key |-> k, id |-> i, value |-> v]

\* setState(key, value) in the world w = [mug, hook, trace, calls, thrown]:
\* the listeners run inside the call and may call back into the Mug.
RECURSIVE Mug_setState(_, _, _)

\* A listener calls the functions subscribe() returned for the listeners
\* `ids' of the key.
RECURSIVE unsubscribeOthers(_, _, _, _)
unsubscribeOthers(w, c, key, ids) ==
    IF ids = {} THEN w
    ELSE LET i == CHOOSE x \in ids : \A y \in ids : x <= y
             u == [key |-> key, id |-> i, listener |-> w.mug.listeners[key][i]]
         IN unsubscribeOthers(
              [w EXCEPT !.mug = Mug_unsubscribe(@, u),
                        !.trace = Append(@, MugEvent("unsubscribe", c, key, i, undefined))],
              c, key, ids \ {i})

\* A listener calls mug.subscribe(key, listener).
subscribeAnother(w, c, key, listener) ==
    LET r == Mug_subscribe(w.mug, key, listener)
    IN [w EXCEPT !.mug = r.mug,
                 !.trace = Append(@, MugEvent("subscribe", c, key, r.unsubscribe.id,
                                              undefined))]

\* One listener of the snapshot is called with the value.
Invoke(w, c, key, l, value) ==
    LET called == [w EXCEPT !.trace = Append(@, MugEvent("listener", c, key, l.id, value))]
    IN CASE l.listener = "plain" -> called
         [] l.listener = "throws" -> [called EXCEPT !.thrown = TRUE]
         [] l.listener = "resets" ->
              IF value # 0 THEN Mug_setState(called, key, 0) ELSE called
         [] l.listener = "setState" ->
              IF called.hook.pc = "gone" THEN called
              ELSE [called EXCEPT !.hook.state = value]
         [] l.listener = "unsubscribes" ->
              unsubscribeOthers(called, c, key, DOMAIN called.mug.listeners[key] \ {l.id})
         [] l.listener = "subscribes" ->
              IF called.mug.listenerIdCounter < MaxRound
              THEN subscribeAnother(called, c, key, "plain")
              ELSE called

\* forEach over the snapshot: an exception ends the loop and the call.
RECURSIVE forEach(_, _, _, _, _)
forEach(w, c, key, values, value) ==
    IF values = <<>> \/ w.thrown THEN w
    ELSE forEach(Invoke(w, c, key, Head(values), value), c, key, Tail(values), value)

Mug_setState(w, key, value) ==
    LET c == w.calls + 1
        entered == [w EXCEPT !.calls = c,
                             !.trace = Append(@, MugEvent("setState", c, key, 0, value))]
        stored == [entered EXCEPT !.mug.state = Put(@, key, value),
                                  !.trace = Append(@, MugEvent("stored", c, key, 0, value))]
    IN IF key \in DOMAIN stored.mug.listeners
       THEN forEach(stored, c, key, Object_values(stored.mug.listeners[key]), value)
       ELSE stored

\* ---------------------------------------------------------------- useMug
NoHook == [pc |-> "unmounted", key |-> "", initialValue |-> undefined,
           state |-> undefined, unsubscribe |-> [key |-> "", id |-> 0, listener |-> ""]]

\* Faulty initializer: currentState || initialValue.
useMug_useState_truthy(m, key, initialValue) ==
    LET currentState == Mug_getState(m, key)
    IN IF currentState # undefined /\ currentState # 0 THEN currentState
       ELSE initialValue

\* The initializer given to useState.
useMug_useState(m, key, initialValue) ==
    LET currentState == Mug_getState(m, key)
    IN IF currentState # undefined THEN currentState ELSE initialValue

\* A program that uses no Mug.
MugUnused ==
    /\ mug = Mug_constructor(FALSE, EmptyMap)
    /\ hook = NoHook
    /\ trace = <<>>
    /\ handles = EmptyMap
    /\ unsubs = {}
    /\ lastSet = [k \in Keys |-> undefined]

\* ------------------------------------------------------ Spec: any callers
\* Jobs of any callers in any order: each task runs performTask again and
\* again, arriving and finishing its protected section at any time.
Init ==
    /\ variant \in Variants
    /\ max \in 1..MaxCapacity
    /\ n = NumTasks
    /\ sem = Construct(variant, max)
    /\ pc = [t \in Tasks |-> "idle"]
    /\ microtasks = <<>>
    /\ waitOrder = <<>>
    /\ iter = [t \in Tasks |-> "none"]
    /\ timers = <<>>
    /\ log = <<>>
    /\ twin = NoTwin
    /\ strays = 0
    /\ outer = [t \in Tasks |-> 0]
    /\ at = [t \in Tasks |-> <<>>]
    /\ MugUnused

\* performTask(t) is called: acquire() and, for the generator, its first advance.
Call(t) ==
    /\ pc[t] \in {"idle", "done"}
    /\ Requested(t, AcquireOf(variant, sem, t))
    /\ UNCHANGED <<variant, max, n, timers, log, twin, strays, outer, mug, hook, trace,
                   handles, unsubs, lastSet, at>>

\* The event loop runs the next microtask.
Resume ==
    /\ Resumed
    /\ UNCHANGED <<variant, max, n, timers, log, twin, strays, outer, mug, hook, trace,
                   handles, unsubs, lastSet, at>>

\* The task's work is over: it calls release(). With SimpleSemaphore
\* performTask returns; with the generator the loop body's end is reached.
Release(t) ==
    /\ pc[t] = "holding"
    /\ Released(t, ReleaseOf(variant, sem),
                IF variant = "generator" THEN "yielded" ELSE "done")
    /\ UNCHANGED <<variant, max, n, iter, timers, log, twin, strays, outer, mug, hook, trace,
                   handles, unsubs, lastSet, at>>

\* break: the for-await loop closes the iterator.
Break(t) ==
    /\ variant = "generator"
    /\ pc[t] = "yielded"
    /\ pc' = [pc EXCEPT ![t] = "done"]
    /\ iter' = [iter EXCEPT ![t] = "none"]
    /\ UNCHANGED <<variant, max, n, sem, microtasks, waitOrder, timers, log, twin, strays, outer, mug, hook, trace,
                   handles, unsubs, lastSet, at>>

\* No break: the for-await loop advances the same iterator again.
Advance(t) ==
    /\ variant = "generator"
    /\ pc[t] = "yielded"
    /\ LET r == SimpleGeneratorSemaphore_next(sem, t) IN
         IF r.done
         THEN /\ pc' = [pc EXCEPT ![t] = "done"]
              /\ iter' = [iter EXCEPT ![t] = "ended"]
              /\ UNCHANGED <<sem, microtasks, waitOrder>>
         ELSE Requested(t, r)
    /\ UNCHANGED <<variant, max, n, timers, log, twin, strays, outer, mug, hook, trace,
                   handles, unsubs, lastSet, at>>

Next ==
    \/ \E t \in Tasks : Call(t)
    \/ Resume
    \/ \E t \in Tasks : Release(t)
    \/ \E t \in Tasks : Break(t)
    \/ \E t \in Tasks : Advance(t)

Spec == Init /\ [][Next]_vars

\* ------------------------------------------- SpecTest: the unit tests' program
\* [1..n].map(performTask) in one job, every task holding its slot for the
\* same setTimeout delay, so that the timers fire in the order they were set;
\* the loop runs every microtask before the next timer.
Event(t, e) == [task |-> t, event |-> e]

InitTest ==
    /\ variant \in Variants
    /\ max \in 1..MaxCapacity
    /\ n \in 1..TestTasks
    /\ sem = Construct(variant, max)
    /\ pc = [t \in Tasks |-> "idle"]
    /\ microtasks = <<>>
    /\ waitOrder = <<>>
    /\ iter = [t \in Tasks |-> "none"]
    /\ timers = <<>>
    /\ log = <<>>
    /\ twin = NoTwin
    /\ strays = 0
    /\ outer = [t \in Tasks |-> 0]
    /\ at = [t \in Tasks |-> <<>>]
    /\ MugUnused

ScriptDone == \A t \in Tasks : pc[t] # "idle"

\* tasks.map: performTask(t) is called after performTask(1..t-1), in the same job.
TestCall(t) ==
    /\ pc[t] = "idle"
    /\ \A u \in 1..(t - 1) : pc[u] # "idle"
    /\ Requested(t, AcquireOf(variant, sem, t))
    /\ UNCHANGED <<variant, max, n, timers, log, twin, strays, outer, mug, hook, trace,
                   handles, unsubs, lastSet, at>>

\* A microtask runs; the task's continuation logs its start and sets its timer.
TestResume ==
    /\ ScriptDone
    /\ Resumed
    /\ IF Starting
       THEN /\ log' = Append(log, Event(Head(microtasks).task, "starting"))
            /\ timers' = Append(timers, Head(microtasks).task)
       ELSE UNCHANGED <<log, timers>>
    /\ UNCHANGED <<variant, max, n, twin, strays, outer, mug, hook, trace,
                   handles, unsubs, lastSet, at>>

\* The oldest timer fires: the task logs its end, calls release() and leaves
\* (break closes the generator).
TestTimeout ==
    /\ ScriptDone
    /\ microtasks = <<>>
    /\ timers # <<>>
    /\ LET t == Head(timers) IN
         /\ log' = Append(log, Event(t, "finished"))
         /\ timers' = Tail(timers)
         /\ Released(t, ReleaseOf(variant, sem), "done")
         /\ iter' = [iter EXCEPT ![t] = "none"]
    /\ UNCHANGED <<variant, max, n, twin, strays, outer, mug, hook, trace,
                   handles, unsubs, lastSet, at>>

NextTest ==
    \/ \E t \in Tasks : TestCall(t)
    \/ TestResume
    \/ TestTimeout

SpecTest == InitTest /\ [][NextTest]_vars

\* ------------------------------------- SpecFair: Spec under fair scheduling
\* The loop runs every pending microtask, every holder ends its protected
\* section and releases, every task calls performTask again, and a
\* for-await loop either breaks or advances.
Fairness ==
    /\ WF_vars(Resume)
    /\ \A t \in 1..NumTasks : WF_vars(Release(t))
    /\ \A t \in 1..NumTasks : WF_vars(Call(t))
    /\ \A t \in 1..NumTasks : WF_vars(Break(t) \/ Advance(t))

SpecFair == Init /\ [][Next]_vars /\ Fairness

\* ------------------------- SpecEquiv: one semaphore of each class, same calls
\* The same acquire and release calls are made on a SimpleSemaphore and on a
\* SimpleGeneratorSemaphore whose iterators are advanced once and closed.
\* A world is a semaphore with the tasks holding a slot of it and the order
\* in which it granted its requests.
NewWorld(v, m) == [sem |-> Construct(v, m), held |-> {}, grants |-> <<>>]

WorldAcquire(v, w, t) ==
    LET r == AcquireOf(v, w.sem, t) IN
    [sem |-> r.sem,
     held |-> IF r.settled THEN w.held \cup {t} ELSE w.held,
     grants |-> IF r.settled THEN Append(w.grants, t) ELSE w.grants]

WorldRelease(v, w, t) ==
    LET r == ReleaseOf(v, w.sem) IN
    [sem |-> r.sem,
     held |-> (w.held \ {t}) \cup Range(r.woken),
     grants |-> w.grants \o r.woken]

InitEquiv ==
    /\ variant = "promise"
    /\ max \in 1..MaxCapacity
    /\ n = NumTasks
    /\ sem = Construct(variant, max)
    /\ pc = [t \in Tasks |-> "idle"]
    /\ microtasks = <<>>
    /\ waitOrder = <<>>
    /\ iter = [t \in Tasks |-> "none"]
    /\ timers = <<>>
    /\ log = <<>>
    /\ twin = [promise |-> NewWorld("promise", max),
               generator |-> NewWorld("generator", max)]
    /\ strays = 0
    /\ outer = [t \in Tasks |-> 0]
    /\ at = [t \in Tasks |-> <<>>]
    /\ MugUnused

\* Task t, which neither holds a slot nor waits for one, calls acquire.
EquivAcquire(t) ==
    /\ t \notin twin.promise.held
    /\ t \notin Range(twin.promise.sem.tasks)
    /\ Len(twin.promise.grants) < MaxGrants
    /\ twin' = [promise |-> WorldAcquire("promise", twin.promise, t),
                generator |-> WorldAcquire("generator", twin.generator, t)]
    /\ UNCHANGED <<variant, max, n, sem, pc, microtasks, waitOrder, iter, timers, log, strays, outer, mug, hook, trace,
                   handles, unsubs, lastSet, at>>

\* Task t, which holds a slot, calls release.
EquivRelease(t) ==
    /\ t \in twin.promise.held
    /\ twin' = [promise |-> WorldRelease("promise", twin.promise, t),
                generator |-> WorldRelease("generator", twin.generator, t)]
    /\ UNCHANGED <<variant, max, n, sem, pc, microtasks, waitOrder, iter, timers, log, strays, outer, mug, hook, trace,
                   handles, unsubs, lastSet, at>>

NextEquiv ==
    \/ \E t \in Tasks : EquivAcquire(t)
    \/ \E t \in Tasks : EquivRelease(t)

SpecEquiv == InitEquiv /\ [][NextEquiv]_vars

\* --------------------------------- SpecOver: callers that release too often
\* The callers of Spec, and code that calls release() without holding a slot
\* (a second release() of the same grant, a release on an error path).
StrayRelease ==
    /\ strays < MaxStrays
    /\ strays' = strays + 1
    /\ LET r == ReleaseOf(variant, sem) IN
         /\ sem' = r.sem
         /\ pc' = [u \in Tasks |-> IF u \in Range(r.woken) THEN "granted" ELSE pc[u]]
         /\ microtasks' = microtasks \o Reactions(r.woken, variant)
         /\ waitOrder' = Without(waitOrder, Range(r.woken))
    /\ UNCHANGED <<variant, max, n, iter, timers, log, twin, outer, mug, hook, trace,
                   handles, unsubs, lastSet, at>>

NextOver ==
    \/ \E t \in Tasks : Call(t)
    \/ Resume
    \/ \E t \in Tasks : Release(t)
    \/ \E t \in Tasks : Break(t)
    \/ \E t \in Tasks : Advance(t)
    \/ StrayRelease

SpecOver == Init /\ [][NextOver]_vars

\* ------------------------------- SpecHold: callers that hold on to their slots
\* The callers of Spec, holders that call acquire again before they release,
\* and holders that leave without release() (the work throws: performTask has
\* no finally). release() is called by holders only.

\* A holder calls acquire again (a nested await / for-await on the same semaphore).
Reacquire(t) ==
    /\ pc[t] = "holding"
    /\ outer[t] < MaxNesting
    /\ outer' = [outer EXCEPT ![t] = @ + 1]
    /\ Requested(t, AcquireOf(variant, sem, t))
    /\ UNCHANGED <<variant, max, n, timers, log, twin, strays, mug, hook, trace,
                   handles, unsubs, lastSet, at>>

\* The holder of a nested grant releases it and goes on with the outer one.
ReleaseInner(t) ==
    /\ pc[t] = "holding"
    /\ outer[t] > 0
    /\ outer' = [outer EXCEPT ![t] = @ - 1]
    /\ Released(t, ReleaseOf(variant, sem), "holding")
    /\ UNCHANGED <<variant, max, n, iter, timers, log, twin, strays, mug, hook, trace,
                   handles, unsubs, lastSet, at>>

\* The holder releases its only slot: Release of Spec.
ReleaseLast(t) ==
    /\ outer[t] = 0
    /\ Release(t)

\* The holder's work throws: performTask ends and release() is never called.
Leak(t) ==
    /\ pc[t] = "holding"
    /\ outer[t] = 0
    /\ pc' = [pc EXCEPT ![t] = "leaked"]
    /\ UNCHANGED <<variant, max, n, sem, microtasks, waitOrder, iter, timers, log, twin,
                   strays, outer, mug, hook, trace,
                   handles, unsubs, lastSet, at>>

NextHold ==
    \/ \E t \in Tasks : Call(t)
    \/ Resume
    \/ \E t \in Tasks : ReleaseLast(t)
    \/ \E t \in Tasks : Break(t)
    \/ \E t \in Tasks : Advance(t)
    \/ \E t \in Tasks : Reacquire(t)
    \/ \E t \in Tasks : ReleaseInner(t)
    \/ \E t \in Tasks : Leak(t)

SpecHold == Init /\ [][NextHold]_vars

\* ------------------------------------------------- SpecMug: users of a Mug
\* A program that uses no semaphore.
SemUnused ==
    /\ variant = "promise"
    /\ max = 1
    /\ n = 1
    /\ sem = Construct(variant, max)
    /\ pc = [t \in Tasks |-> "idle"]
    /\ microtasks = <<>>
    /\ waitOrder = <<>>
    /\ iter = [t \in Tasks |-> "none"]
    /\ timers = <<>>
    /\ log = <<>>
    /\ twin = NoTwin
    /\ strays = 0
    /\ outer = [t \in Tasks |-> 0]
    /\ at = [t \in Tasks |-> <<>>]

\* Partial<T>: any of the keys, each with a value.
PartialStates == UNION {[D -> Values] : D \in SUBSET Keys}

\* new Mug() or new Mug(initialState); nobody has subscribed yet.
InitMug ==
    /\ SemUnused
    /\ \E given \in BOOLEAN, initialState \in PartialStates :
         /\ given \/ initialState = EmptyMap
         /\ mug = Mug_constructor(given, initialState)
         /\ lastSet = [k \in Keys |-> IF k \in DOMAIN initialState
                                      THEN initialState[k] ELSE undefined]
    /\ hook = NoHook
    /\ trace = <<>>
    /\ handles = EmptyMap
    /\ unsubs = {}

\* The world a call from outside the listeners starts in.
Running == [mug |-> mug, hook |-> hook, trace |-> <<>>, calls |-> 0, thrown |-> FALSE]

\* Per key, the value of the latest setState call of the trace, if any.
LatestSet(tr) ==
    [k \in Keys |->
       LET S == {i \in DOMAIN tr : tr[i].ev = "setState" /\ tr[i].key = k}
       IN IF S = {} THEN lastSet[k]
          ELSE tr[CHOOSE i \in S : \A j \in S : j <= i].value]

\* mug.setState(key, value) is called by code outside the listeners and
\* returns or throws.
MugSetState(key, value) ==
    LET w == Mug_setState(Running, key, value) IN
      /\ mug' = w.mug
      /\ hook' = w.hook
      /\ trace' = w.trace
      /\ lastSet' = LatestSet(w.trace)
      /\ UNCHANGED <<variant, max, n, sem, pc, microtasks, waitOrder, iter, timers, log,
                     twin, strays, outer, handles, unsubs, at>>

\* mug.subscribe(key, listener); the caller keeps the function it returns.
MugSubscribe(key, listener) ==
    /\ mug.listenerIdCounter < MaxListeners
    /\ LET r == Mug_subscribe(mug, key, listener) IN
         /\ mug' = r.mug
         /\ handles' = Put(handles, r.unsubscribe.id, r.unsubscribe)
         /\ trace' = <<MugEvent("subscribe", 0, key, r.unsubscribe.id, undefined)>>
    /\ UNCHANGED <<variant, max, n, sem, pc, microtasks, waitOrder, iter, timers, log,
                   twin, strays, outer, hook, unsubs, lastSet, at>>

\* A function returned by subscribe is called, for the first time or again.
MugUnsubscribe(id) ==
    /\ id \in DOMAIN handles
    /\ mug' = Mug_unsubscribe(mug, handles[id])
    /\ unsubs' = unsubs \cup {id}
    /\ trace' = <<MugEvent("unsubscribe", 0, handles[id].key, id, undefined)>>
    /\ UNCHANGED <<variant, max, n, sem, pc, microtasks, waitOrder, iter, timers, log,
                   twin, strays, outer, hook, handles, lastSet, at>>

NextMug ==
    \/ \E key \in Keys, value \in Values : MugSetState(key, value)
    \/ \E key \in Keys, listener \in Listeners : MugSubscribe(key, listener)
    \/ \E id \in 1..MaxListeners : MugUnsubscribe(id)

SpecMug == InitMug /\ [][NextMug]_vars

\* --------------------------------------- SpecHook: a component using useMug
\* First render of useMug(mug, key, initialValue): useState runs its initializer.
Render(key, initialValue) ==
    /\ hook.pc = "unmounted"
    /\ hook' = [hook EXCEPT !.pc = "rendered", !.key = key,
                            !.initialValue = initialValue,
                            !.state = useMug_useState(mug, key, initialValue)]
    /\ trace' = <<>>
    /\ UNCHANGED <<variant, max, n, sem, pc, microtasks, waitOrder, iter, timers, log,
                   twin, strays, outer, mug, handles, unsubs, lastSet, at>>

\* The effect runs after the render: mug.subscribe(key, setState).
Effect ==
    /\ hook.pc = "rendered"
    /\ mug.listenerIdCounter < MaxListeners
    /\ LET r == Mug_subscribe(mug, hook.key, "setState") IN
         /\ mug' = r.mug
         /\ hook' = [hook EXCEPT !.pc = "mounted", !.unsubscribe = r.unsubscribe]
    /\ trace' = <<>>
    /\ UNCHANGED <<variant, max, n, sem, pc, microtasks, waitOrder, iter, timers, log,
                   twin, strays, outer, handles, unsubs, lastSet, at>>

\* The component unmounts: the effect's cleanup calls unsubscribe().
Unmount ==
    /\ hook.pc = "mounted"
    /\ mug' = Mug_unsubscribe(mug, hook.unsubscribe)
    /\ hook' = [hook EXCEPT !.pc = "gone"]
    /\ trace' = <<>>
    /\ UNCHANGED <<variant, max, n, sem, pc, microtasks, waitOrder, iter, timers, log,
                   twin, strays, outer, handles, unsubs, lastSet, at>>

\* The component calls the setter useMug returned: updateGlobalState(value).
updateGlobalState(value) ==
    /\ hook.pc \in {"rendered", "mounted"}
    /\ MugSetState(hook.key, value)

\* Other code of the page subscribes to the same Mug.
OtherSubscribe(key, listener) ==
    /\ Cardinality(DOMAIN handles) < MaxOthers
    /\ MugSubscribe(key, listener)

NextHook ==
    \/ \E key \in Keys, value \in Values : MugSetState(key, value)
    \/ \E key \in Keys, listener \in Listeners : OtherSubscribe(key, listener)
    \/ \E id \in 1..MaxListeners : MugUnsubscribe(id)
    \/ \E key \in Keys, initialValue \in Values : Render(key, initialValue)
    \/ Effect
    \/ Unmount
    \/ \E value \in Values : updateGlobalState(value)

SpecHook == InitMug /\ [][NextHook]_vars

\* ------------------------------------ SpecSteps: acquire statement by statement
\* The statements a call of acquire() (or an advance of the generator) runs
\* after its test of count, in order. "yield", "return ..." and "await new
\* Promise" end the job; a bare "await" would suspend it in the middle.

\* Faulty body of an async acquire: awaits between the test and the decrement.
SimpleSemaphore_acquire_body_awaits(s) ==
    IF s.count > 0
    THEN <<"await", "this.count -= 1", "return Promise.resolve()">>
    ELSE <<"this.tasks.push(resolve)", "return new Promise">>

SimpleSemaphore_acquire_body(s) ==
    IF s.count > 0
    THEN <<"this.count -= 1", "return Promise.resolve()">>
    ELSE <<"this.tasks.push(resolve)", "return new Promise">>

\* Faulty generator body: awaits between the test and the push.
SimpleGeneratorSemaphore_acquire_body_awaits(s) ==
    IF s.count > 0
    THEN <<"this.count -= 1", "yield">>
    ELSE <<"await", "this.tasks.push(resolve)", "await new Promise">>

SimpleGeneratorSemaphore_acquire_body(s) ==
    IF s.count > 0
    THEN <<"this.count -= 1", "yield">>
    ELSE <<"this.tasks.push(resolve)", "await new Promise">>

BodyOf(v, s) ==
    IF v = "promise" THEN SimpleSemaphore_acquire_body(s)
    ELSE SimpleGeneratorSemaphore_acquire_body(s)

\* One job of task t runs the statements up to the first that suspends or returns.
RECURSIVE Run(_, _, _)
Run(s, t, stmts) ==
    LET st == Head(stmts) IN
    CASE st = "this.count -= 1" -> Run([s EXCEPT !.count = @ - 1], t, Tail(stmts))
      [] st = "this.tasks.push(resolve)" ->
           Run([s EXCEPT !.tasks = Append(@, t)], t, Tail(stmts))
      [] st \in {"yield", "return Promise.resolve()"} ->
           [sem |-> s, rest |-> <<>>, outcome |-> "granted"]
      [] st \in {"await new Promise", "return new Promise"} ->
           [sem |-> s, rest |-> <<>>, outcome |-> "waiting"]
      [] st = "await" -> [sem |-> s, rest |-> Tail(stmts), outcome |-> "paused"]

\* A job of task t inside acquire: the call (or advance), or the continuation
\* of a job that was suspended inside the body.
AcquireJob(t) ==
    /\ pc[t] \in {"idle", "done", "yielded", "paused"}
    /\ LET r == Run(sem, t, IF pc[t] = "paused" THEN at[t] ELSE BodyOf(variant, sem)) IN
         /\ at' = [at EXCEPT ![t] = r.rest]
         /\ IF r.outcome = "paused"
            THEN /\ sem' = r.sem
                 /\ pc' = [pc EXCEPT ![t] = "paused"]
                 /\ UNCHANGED <<microtasks, waitOrder, iter>>
            ELSE Requested(t, [sem |-> r.sem, settled |-> r.outcome = "granted",
                               done |-> FALSE])
    /\ UNCHANGED <<variant, max, n, timers, log, twin, strays, outer, mug, hook, trace,
                   handles, unsubs, lastSet>>

NextSteps ==
    \/ \E t \in Tasks : AcquireJob(t)
    \/ Resume
    \/ \E t \in Tasks : Release(t)
    \/ \E t \in Tasks : Break(t)

SpecSteps == Init /\ [][NextSteps]_vars

\* ------------------------------------------- SpecAny: any integer capacity
\* new SimpleSemaphore(max) with max zero or negative as well; the callers of
\* SpecOver.
InitAny ==
    /\ variant \in Variants
    /\ max \in (0 - MaxDeficit)..MaxCapacity
    /\ n = NumTasks
    /\ sem = Construct(variant, max)
    /\ pc = [t \in Tasks |-> "idle"]
    /\ microtasks = <<>>
    /\ waitOrder = <<>>
    /\ iter = [t \in Tasks |-> "none"]
    /\ timers = <<>>
    /\ log = <<>>
    /\ twin = NoTwin
    /\ strays = 0
    /\ outer = [t \in Tasks |-> 0]
    /\ at = [t \in Tasks |-> <<>>]
    /\ MugUnused

SpecAny == InitAny /\ [][NextOver]_vars

\* ------------------------------------- SpecIter: the iterator, call by call
\* Callers of SimpleGeneratorSemaphore that call acquire() and advance the
\* iterator in separate steps, and that may leave the loop at any point.
InitIter ==
    /\ Init
    /\ variant = "generator"

\* const iterator = semaphore.acquire(), not advanced yet.
Create(t) ==
    /\ pc[t] \in {"idle", "done"}
    /\ sem' = SimpleGeneratorSemaphore_acquire_call(sem, t).sem
    /\ pc' = [pc EXCEPT ![t] = "created"]
    /\ UNCHANGED <<variant, max, n, microtasks, waitOrder, iter, timers, log, twin,
                   strays, outer, mug, hook, trace, handles, unsubs, lastSet, at>>

\* The first next() of the iterator.
First(t) ==
    /\ pc[t] = "created"
    /\ Requested(t, SimpleGeneratorSemaphore_next(sem, t))
    /\ UNCHANGED <<variant, max, n, timers, log, twin, strays, outer, mug, hook, trace,
                   handles, unsubs, lastSet, at>>

\* break or return inside the for-await loop, after release() or without it:
\* the loop calls the iterator's return().
Close(t) ==
    /\ pc[t] \in {"holding", "yielded"}
    /\ Released(t, SimpleGeneratorSemaphore_return(sem),
                IF pc[t] = "holding" THEN "leaked" ELSE "done")
    /\ iter' = [iter EXCEPT ![t] = "none"]
    /\ UNCHANGED <<variant, max, n, timers, log, twin, strays, outer, mug, hook, trace,
                   handles, unsubs, lastSet, at>>

NextIter ==
    \/ \E t \in Tasks : Create(t)
    \/ \E t \in Tasks : First(t)
    \/ Resume
    \/ \E t \in Tasks : Release(t)
    \/ \E t \in Tasks : Advance(t)
    \/ \E t \in Tasks : Close(t)

SpecIter == InitIter /\ [][NextIter]_vars

\* ----------------------- SpecRound: listeners that change the subscriptions
\* What a listener of this program does when it is called: take the value,
\* throw, unsubscribe every other listener of its key, or subscribe one more
\* plain listener to its key (while fewer than MaxRound were ever subscribed).
RoundListeners == {"plain", "throws", "unsubscribes", "subscribes"}

\* mug.subscribe(key, listener), called outside the listeners.
RoundSubscribe(key, listener) ==
    /\ mug.listenerIdCounter < MaxRound
    /\ LET r == Mug_subscribe(mug, key, listener) IN
         /\ mug' = r.mug
         /\ handles' = Put(handles, r.unsubscribe.id, r.unsubscribe)
         /\ trace' = <<MugEvent("subscribe", 0, key, r.unsubscribe.id, undefined)>>
    /\ UNCHANGED <<variant, max, n, sem, pc, microtasks, waitOrder, iter, timers, log,
                   twin, strays, outer, hook, unsubs, lastSet, at>>

NextRound ==
    \/ \E key \in Keys, value \in Values : MugSetState(key, value)
    \/ \E key \in Keys, listener \in RoundListeners : RoundSubscribe(key, listener)

SpecRound == InitMug /\ [][NextRound]_vars

\* ---------------------------------------------------------------- claims
Granted == {t \in Tasks : pc[t] \in {"granted", "holding"}}
Quiescent == \A t \in Tasks : pc[t] \in {"idle", "yielded", "done"}
QueuedGrant(t) ==
    \E i \in 1..Len(microtasks) :
        microtasks[i] = [task |-> t, ticks |-> ResumeTicks("generator", TRUE)]

\* C1: capacity invariant. The number of slots granted and not yet released,
\* a waiter counted from the moment release resolves it, never exceeds the
\* capacity the semaphore was constructed with, for both classes.
C1_CapacityInvariant == Cardinality(Granted) <= max

\* C1 witness: the capacity is used up by a waiter that release has resolved
\* and that has not resumed yet, while another request is still queued.
C1_Witness ==
    /\ Cardinality(Granted) = max
    /\ \E t \in Tasks : pc[t] = "granted" /\ variant = "generator" /\ QueuedGrant(t)
    /\ \E t \in Tasks : pc[t] = "waiting"

\* C2: FIFO fairness. In every step, a waiting request that is granted is the
\* one that arrived earliest among the requests still waiting, and a request
\* granted on arrival finds no request waiting.
C2_FIFO ==
    [][\A t \in Tasks :
         (pc[t] # "granted" /\ pc'[t] = "granted") =>
            IF pc[t] = "waiting" THEN waitOrder # <<>> /\ Head(waitOrder) = t
            ELSE waitOrder = <<>>]_vars

\* C2 witness: two requests waited, the earlier one has been granted by a
\* release and the later one is still waiting.
C2_Witness ==
    /\ variant = "generator"
    /\ \E t, u \in Tasks :
         /\ t # u
         /\ pc[t] = "granted" /\ QueuedGrant(t)
         /\ waitOrder = <<u>>

\* C3: no double grant. A release call resumes exactly the head of a
\* non-empty wait queue and nothing when the queue is empty; the other queued
\* requests stay queued in the same order.
C3_NoDoubleGrant ==
    [][\A t \in Tasks :
         (pc[t] = "holding" /\ pc'[t] # "holding") =>
            LET woken == {u \in Tasks : pc[u] = "waiting" /\ pc'[u] # "waiting"} IN
            IF sem.tasks # <<>>
            THEN /\ woken = {Head(sem.tasks)}
                 /\ sem'.tasks = Tail(sem.tasks)
                 /\ Len(microtasks') = Len(microtasks) + 1
                 /\ microtasks'[Len(microtasks')].task = Head(sem.tasks)
            ELSE /\ woken = {}
                 /\ sem'.tasks = <<>>
                 /\ microtasks' = microtasks]_vars

\* C3 witness: a release found two requests queued; the head is resumed and
\* the other one is still in the queue.
C3_Witness ==
    /\ Len(sem.tasks) = 1
    /\ Len(microtasks) = 1
    /\ microtasks[1].ticks = ResumeTicks("generator", TRUE)
    /\ variant = "generator"
    /\ \E t \in Tasks : pc[t] = "yielded"

\* C7: round trip. When every acquire has been granted and released by its
\* holder, count is the constructor's argument again and the queue is empty.
C7_RoundTrip == Quiescent => (sem.count = max /\ sem.tasks = <<>>)

\* C7 witness: all tasks have gone through acquire and release, one of them
\* after having waited in the queue (more tasks than slots).
C7_Witness ==
    /\ Quiescent
    /\ \A t \in Tasks : pc[t] \in {"done", "yielded"}
    /\ max < n
    /\ sem.count = max

\* C10: the iterator of SimpleGeneratorSemaphore.acquire never ends on its
\* own, and an advance of an iterator that has already yielded is one more
\* grant cycle: count is decremented if a slot is free, otherwise the caller
\* is appended to the tail of the wait queue.
C10_SecondAdvance ==
    [][/\ \A t \in Tasks : iter'[t] # "ended"
       /\ \A t \in Tasks :
            (pc[t] = "yielded" /\ pc'[t] # "yielded" /\ iter'[t] # "none") =>
               IF sem.count > 0
               THEN /\ sem'.count = sem.count - 1
                    /\ sem'.tasks = sem.tasks
                    /\ pc'[t] = "granted"
               ELSE /\ sem'.count = sem.count
                    /\ sem'.tasks = Append(sem.tasks, t)
                    /\ pc'[t] = "waiting"]_vars

\* C10 witness: a task advanced its iterator a second time and stands at the
\* tail of the wait queue behind a request that was already waiting.
C10_Witness ==
    \E t \in Tasks :
        /\ iter[t] = "again"
        /\ pc[t] = "waiting"
        /\ Len(sem.tasks) >= 2
        /\ sem.tasks[Len(sem.tasks)] = t
Called == {t \in Tasks : pc[t] # "idle"}
AllDone == \A t \in Tasks : pc[t] = "done"
NoneFinished == \A i \in 1..Len(log) : log[i].event # "finished"

\* C4: immediate grant. Before any release, the first max tasks that called
\* acquire were granted without queueing, each taking one from count, and
\* every later caller is in the wait queue, ungranted, in call order.
C4_ImmediateGrant ==
    LET a == Cardinality(Called) IN
    NoneFinished =>
        /\ sem.count = (IF a <= max THEN max - a ELSE 0)
        /\ Len(sem.tasks) = (IF a <= max THEN 0 ELSE a - max)
        /\ \A i \in 1..Len(sem.tasks) : sem.tasks[i] = max + i
        /\ \A t \in Called : t <= max => pc[t] \in {"granted", "holding"}
        /\ \A t \in Called : t > max => pc[t] = "waiting"

\* C4 witness: capacity 2, the first two callers run their protected
\* sections, the third is queued and no holder has released yet.
C4_Witness ==
    /\ max = 2
    /\ n >= 3
    /\ NoneFinished
    /\ pc[1] = "holding" /\ pc[2] = "holding" /\ pc[3] = "waiting"
    /\ sem.count = 0
    /\ Head(sem.tasks) = 3

\* C5: full serialization at capacity 1. The log is 1 starts, 1 finishes,
\* 2 starts, 2 finishes, ... in call order, at most one task is inside its
\* protected section, and every task has logged both events when all are done.
C5_Serialized ==
    max = 1 =>
        /\ \A i \in 1..Len(log) :
             log[i] = Event((i + 1) \div 2, IF i % 2 = 1 THEN "starting" ELSE "finished")
        /\ Cardinality({t \in Tasks : pc[t] = "holding"}) <= 1
        /\ AllDone => Len(log) = 2 * n

\* C5 witness: three tasks have run one after the other at capacity 1.
C5_Witness ==
    /\ max = 1
    /\ n = 3
    /\ AllDone
    /\ log = <<Event(1, "starting"), Event(1, "finished"),
               Event(2, "starting"), Event(2, "finished"),
               Event(3, "starting"), Event(3, "finished")>>

\* C6: bounded parallel run. With more tasks than slots, the finish of task t
\* is followed at once by the start of task t + max, the waiter it woke,
\* before any other finish; with capacity 2 and 4 tasks the log is the one
\* the tests expect.
C6_BoundedParallel ==
    /\ \A j \in 1..Len(log) :
         (log[j].event = "finished" /\ log[j].task + max <= n /\ j < Len(log)) =>
            log[j + 1] = Event(log[j].task + max, "starting")
    /\ (AllDone /\ max < n) =>
         \A t \in 1..(n - max) :
            \E j \in 1..(Len(log) - 1) :
               log[j] = Event(t, "finished") /\ log[j + 1] = Event(t + max, "starting")
    /\ (AllDone /\ max = 2 /\ n = 4) =>
         log = <<Event(1, "starting"), Event(2, "starting"),
                 Event(1, "finished"), Event(3, "starting"),
                 Event(2, "finished"), Event(4, "starting"),
                 Event(3, "finished"), Event(4, "finished")>>

\* C6 witness: the generator semaphore's test has run to its end.
C6_Witness ==
    /\ variant = "generator"
    /\ max = 2 /\ n = 4
    /\ AllDone
    /\ Len(log) = 8
    /\ log[4] = Event(3, "starting") /\ log[5] = Event(2, "finished")
\* C8: non-starvation. Under fair scheduling, with tasks that acquire and
\* release again and again and more tasks than slots, every task that has
\* called acquire gets into its protected section, and every task is inside
\* its protected section infinitely often.
C8_NonStarvation ==
    \A t \in 1..NumTasks :
        /\ (pc[t] \in {"waiting", "granted"}) ~> (pc[t] = "holding")
        /\ []<>(pc[t] = "holding")

\* C8 witness: more tasks than slots, a task waits in the queue behind
\* another one while all the slots are held.
C8_Witness ==
    /\ max < n
    /\ Len(sem.tasks) = n - max
    /\ Cardinality({t \in Tasks : pc[t] = "holding"}) = max
    /\ \E t \in Tasks : iter[t] = "again"

\* C9: variant equivalence. After the same calls, the SimpleSemaphore and the
\* SimpleGeneratorSemaphore have the same count, the same wait queue in the
\* same order, the same holders, and have granted the same requests in the
\* same order.
C9_VariantEquivalence ==
    twin # NoTwin =>
        /\ twin.generator.sem.count = twin.promise.sem.count
        /\ twin.generator.sem.tasks = twin.promise.sem.tasks
        /\ twin.generator.grants = twin.promise.grants
        /\ twin.generator.held = twin.promise.held

\* C9 witness: both semaphores have queued two requests and then granted
\* the first of them by a release.
C9_Witness ==
    /\ twin # NoTwin
    /\ Len(twin.generator.sem.tasks) = 1
    /\ Len(twin.generator.grants) = max + 1
    /\ twin.generator.sem.count = 0
    /\ twin.promise.sem.count = 0
Holding == {t \in Tasks : pc[t] = "holding"}
Leaked == {t \in Tasks : pc[t] = "leaked"}

RECURSIVE SlotsOf(_)
SlotsOf(S) ==
    IF S = {} THEN 0
    ELSE LET t == CHOOSE u \in S : TRUE IN
         outer[t] + (IF pc[t] \in {"granted", "holding", "leaked"} THEN 1 ELSE 0)
         + SlotsOf(S \ {t})

\* C11: over-release is not validated. A release() by code that holds no slot,
\* made when the wait queue is empty, is neither rejected nor ignored: it adds
\* 1 to count, whatever count already is, and resumes nobody; with a waiter
\* queued it hands the waiter a slot nobody gave back.
C11_OverRelease ==
    [][strays' # strays =>
         IF sem.tasks = <<>>
         THEN /\ sem'.count = sem.count + 1
              /\ sem'.tasks = <<>>
              /\ pc' = pc
         ELSE /\ sem'.count = sem.count
              /\ pc'[Head(sem.tasks)] = "granted"]_vars

\* C11 witness: after releases without a grant, more tasks than the capacity
\* are inside their protected sections at the same time.
C11_Witness ==
    /\ strays > 0
    /\ Cardinality(Holding) > max

\* C12: acquisition is not reentrant. An acquire by a task that already holds
\* a slot is handled as any other request; at capacity 1 it is queued, and
\* while releases come from holders only the task waits on it for ever.
C12_NotReentrant ==
    [][\A t \in Tasks :
         /\ (pc[t] = "holding" /\ outer'[t] = outer[t] + 1) =>
               IF sem.count > 0
               THEN sem'.count = sem.count - 1 /\ sem'.tasks = sem.tasks
                    /\ pc'[t] = "granted"
               ELSE sem'.count = sem.count /\ sem'.tasks = Append(sem.tasks, t)
                    /\ pc'[t] = "waiting"
         /\ (max = 1 /\ pc[t] = "holding" /\ outer'[t] = outer[t] + 1) =>
               pc'[t] = "waiting"
         /\ (max = 1 /\ pc[t] = "waiting" /\ outer[t] > 0) =>
               (pc'[t] = "waiting" /\ outer'[t] = outer[t])]_vars

\* C12 witness: at capacity 1 the holder waits at the head of the queue for a
\* second slot, and no other task holds one.
C12_Witness ==
    /\ max = 1
    /\ \E t \in Tasks :
         /\ pc[t] = "waiting" /\ outer[t] = 1
         /\ Head(sem.tasks) = t
         /\ \A u \in Tasks \ {t} : pc[u] \notin {"granted", "holding", "leaked"}

\* C13: leaked grants reduce the capacity for good. With L holders gone
\* without release, the other tasks hold at most max - L slots and count is at
\* most max - L; a leaked slot stays leaked; with L = max nothing is granted
\* any more and every waiting request keeps waiting.
C13_Leaks ==
    [][LET L == Cardinality(Leaked) IN
       /\ SlotsOf(Tasks \ Leaked)' <= max - Cardinality(Leaked')
       /\ sem'.count <= max - Cardinality(Leaked')
       /\ \A t \in Leaked : pc'[t] = "leaked"
       /\ L = max =>
            \A t \in Tasks :
               /\ pc[t] = "waiting" => pc'[t] = "waiting"
               /\ pc'[t] # "granted"]_vars

\* C13 witness: every slot is leaked and a task that called acquire
\* afterwards is waiting.
C13_Witness ==
    /\ Cardinality(Leaked) = max
    /\ \E t \in Tasks : pc[t] = "waiting" /\ outer[t] = 0

\* C20: queue/counter invariant. The wait queue is non-empty only while count
\* is 0, and whenever count is positive the queue is empty, also after
\* releases that no grant paired.
C20_QueueCounter ==
    /\ sem.tasks # <<>> => sem.count = 0
    /\ sem.count > 0 => sem.tasks = <<>>

\* C20 witness: requests are queued at count 0 after a release without a grant.
C20_Witness ==
    /\ strays > 0
    /\ sem.tasks # <<>>
    /\ sem.count = 0
\* The registrations a Mug holds: key, id and the function registered.
Registrations(m) ==
    UNION {{<<k, i, m.listeners[k][i]>> : i \in DOMAIN m.listeners[k]} :
             k \in DOMAIN m.listeners}

\* The ids the outermost setState call of a trace invoked.
Notified(tr) == {tr[i].id : i \in {j \in DOMAIN tr : tr[j].ev = "listener" /\ tr[j].call = 1}}

SetCalls(tr) == {i \in DOMAIN tr : tr[i].ev = "setState"}

\* C14: Mug read-your-write. getState(k) returns the value of the most recent
\* setState(k, v), else the value the constructor's initial state gave k, else
\* undefined; and an operation that makes no setState call for k leaves
\* getState(k) as it was.
C14_ReadYourWrite ==
    /\ [](\A k \in Keys : Mug_getState(mug, k) = lastSet[k])
    /\ [][\A k \in Keys :
            (\A i \in SetCalls(trace') : trace'[i].key # k) =>
                Mug_getState(mug', k) = Mug_getState(mug, k)]_vars

\* C14 witness: the key "count" was set to the falsy value 0 and reads 0, and
\* "user", never set nor initialised, reads undefined.
C14_Witness ==
    /\ \E i \in SetCalls(trace) : trace[i].key = "count" /\ trace[i].value = 0
    /\ Mug_getState(mug, "count") = 0
    /\ "user" \notin DOMAIN mug.state
    /\ Mug_getState(mug, "user") = undefined
\* The ids subscribed to key k in Mug m.
Subscribed(m, k) == IF k \in DOMAIN m.listeners THEN DOMAIN m.listeners[k] ELSE {}

\* C15: Mug notification. Each setState(k, v) call, outermost or made by a
\* listener, invokes every listener subscribed to k at that time exactly once
\* with v, after its own store of v, and invokes no listener that is not
\* subscribed to k.
C15_Notification ==
    [][\A i \in SetCalls(trace') :
         LET c == trace'[i].call
             k == trace'[i].key
             v == trace'[i].value
             invoked == {j \in DOMAIN trace' :
                           trace'[j].ev = "listener" /\ trace'[j].call = c}
         IN /\ \A id \in Subscribed(mug, k) :
                 Cardinality({j \in invoked : trace'[j].id = id}) = 1
            /\ \A j \in invoked :
                 /\ trace'[j].id \in Subscribed(mug, k)
                 /\ trace'[j].value = v
                 /\ \E st \in 1..(j - 1) : trace'[st] = MugEvent("stored", c, k, 0, v)]_vars

\* C16: Mug unsubscribe. No setState made after an unsubscribe function was
\* called invokes its registration; the call removes that registration and
\* nothing else, takes no notification away from the other registrations
\* (a second registration of the same function among them), and a second call
\* changes nothing.
C16_Unsubscribe ==
    /\ [](\A i \in DOMAIN trace : trace[i].ev = "listener" => trace[i].id \notin unsubs)
    /\ [][(trace' # <<>> /\ trace'[1].ev = "unsubscribe") =>
            LET u == handles[trace'[1].id] IN
              IF u.id \in unsubs THEN mug' = mug
              ELSE /\ mug'.state = mug.state
                   /\ mug'.listenerIdCounter = mug.listenerIdCounter
                   /\ Registrations(mug') = Registrations(mug) \ {<<u.key, u.id, u.listener>>}
                   /\ \A k \in Keys, v \in Values :
                        LET before == [mug |-> mug, hook |-> hook, trace |-> <<>>,
                                       calls |-> 0, thrown |-> FALSE]
                            after == [before EXCEPT !.mug = mug']
                        IN Notified(Mug_setState(before, k, v).trace) \ {u.id}
                              \subseteq Notified(Mug_setState(after, k, v).trace)]_vars

\* C16 witness: the same function was registered twice on a key, the first
\* registration was unsubscribed, and a later setState on the key
\* invoked the second registration.
C16_Witness ==
    /\ {1, 2} \subseteq DOMAIN handles
    /\ handles[1].key = handles[2].key
    /\ handles[1].listener = handles[2].listener
    /\ 1 \in unsubs
    /\ \E i \in DOMAIN trace : trace[i].ev = "listener" /\ trace[i].id = 2
\* The registrations of the component's state setter.
HookRegistrations(m) == {r \in Registrations(m) : r[3] = "setState"}

\* C17: useMug initial value. On the first render the hook's value is the
\* Mug's value for the key when that is not undefined, else initialValue; the
\* render writes nothing into the Mug, so in the second case getState(key) is
\* still undefined.
C17_InitialValue ==
    [][(hook.pc = "unmounted" /\ hook'.pc = "rendered") =>
         LET k == hook'.key IN
           /\ mug' = mug
           /\ lastSet[k] # undefined => hook'.state = lastSet[k]
           /\ lastSet[k] = undefined =>
                 /\ hook'.state = hook'.initialValue
                 /\ Mug_getState(mug', k) = undefined]_vars

\* C17 witness: the component rendered with initialValue 1 on a key the Mug
\* has no value for, its value is 1 and the Mug still reads undefined.
C17_Witness ==
    /\ hook.pc = "rendered"
    /\ hook.initialValue = 1
    /\ hook.state = 1
    /\ Mug_getState(mug, hook.key) = undefined

\* C18: useMug synchronisation. While the component is mounted and subscribed,
\* after a setState on its key, by its setter or by other code, the hook's value
\* and mug.getState(key) both equal the value last set.
C18_Synchronised ==
    (hook.pc = "mounted" /\ \E i \in SetCalls(trace) : trace[i].key = hook.key) =>
        /\ hook.state = lastSet[hook.key]
        /\ Mug_getState(mug, hook.key) = lastSet[hook.key]

\* C19: useMug cleanup. The effect adds exactly one registration, of the
\* state setter on the hook's key, and it is the only one while mounted; the
\* unmount removes exactly that registration; after it the Mug holds no
\* registration of the setter and no operation changes the hook's value.
C19_Cleanup ==
    [][/\ (hook.pc = "rendered" /\ hook'.pc = "mounted") =>
            /\ Registrations(mug') =
                 Registrations(mug) \cup {<<hook.key, hook'.unsubscribe.id, "setState">>}
            /\ <<hook.key, hook'.unsubscribe.id, "setState">> \notin Registrations(mug)
       /\ hook'.pc = "mounted" =>
            HookRegistrations(mug') = {<<hook'.key, hook'.unsubscribe.id, "setState">>}
       /\ (hook.pc = "mounted" /\ hook'.pc = "gone") =>
            Registrations(mug') =
               Registrations(mug) \ {<<hook.key, hook.unsubscribe.id, "setState">>}
       /\ hook'.pc = "gone" => HookRegistrations(mug') = {}
       /\ hook.pc = "gone" => hook' = hook]_vars

\* C19 witness: after the unmount a setState on the hook's key invoked another
\* listener with a value the hook does not have.
C19_Witness ==
    /\ hook.pc = "gone"
    /\ \E i \in DOMAIN trace :
         /\ trace[i].ev = "listener"
         /\ trace[i].key = hook.key
         /\ trace[i].value # hook.state
\* Steps of a task t: it calls acquire (or advances its iterator); it releases.
Acquires(t) == pc[t] \in {"idle", "done", "yielded"} /\ pc'[t] \in {"granted", "waiting"}
Releases(t) == pc[t] = "holding" /\ pc'[t] \in {"done", "yielded"}

\* C21: slot conservation. With callers that release only slots they hold,
\* count plus the number of slots granted and not released is the capacity,
\* so 0 <= count <= max; count goes down only by 1 in an acquire granted at
\* once, and up only by 1 in a release that finds the queue empty.
C21_Conservation ==
    /\ [](sem.count + Cardinality(Granted) = max /\ sem.count >= 0 /\ sem.count <= max)
    /\ [][/\ sem'.count < sem.count =>
               /\ sem'.count = sem.count - 1
               /\ \E t \in Tasks : Acquires(t) /\ pc'[t] = "granted"
          /\ sem'.count > sem.count =>
               /\ sem'.count = sem.count + 1
               /\ sem.tasks = <<>>
               /\ \E t \in Tasks : Releases(t)]_vars

\* C21 witness: of two slots one is held; the other was granted, released
\* into an empty queue and is back in count.
C21_Witness ==
    /\ max = MaxCapacity
    /\ sem.count = 1
    /\ Cardinality(Granted) = max - 1
    /\ \E t \in Tasks : pc[t] \in {"done", "yielded"}

\* C22: direct hand-off. A release that finds requests queued removes the
\* head, resumes it and leaves count as it is, at 0, so that an acquire made
\* before the woken task runs is queued; a release that finds the queue empty
\* adds exactly 1 to count and leaves the queue empty.
C22_HandOff ==
    [][\A t \in Tasks : Releases(t) =>
         IF sem.tasks # <<>>
         THEN /\ sem'.tasks = Tail(sem.tasks)
              /\ pc'[Head(sem.tasks)] = "granted"
              /\ sem'.count = sem.count
              /\ sem'.count = 0
              /\ \A u \in Tasks : ~AcquireOf(variant, sem', u).settled
         ELSE /\ sem'.count = sem.count + 1
              /\ sem'.tasks = <<>>]_vars

\* C22 witness: task t released its slot to the queued task u, which has not
\* run yet, then advanced its iterator again and was queued at count 0.
C22_Witness ==
    /\ variant = "generator"
    /\ sem.count = 0
    /\ \E t, u \in Tasks :
         /\ pc[u] = "granted" /\ QueuedGrant(u)
         /\ pc[t] = "waiting" /\ iter[t] = "again" /\ sem.tasks = <<t>>
         /\ \A w \in Tasks \ {t, u} : pc[w] = "idle"
\* C23: acquire when full. An acquire that finds count = 0 appends its one
\* request at the tail of the queue and changes nothing else, and its caller
\* waits; a waiting request is in the queue, once, and leaves it and the
\* waiting only in a release step that finds it at the head.
C23_AcquireWhenFull ==
    /\ [](\A t \in Tasks :
            pc[t] = "waiting" <=>
               Cardinality({i \in 1..Len(sem.tasks) : sem.tasks[i] = t}) = 1)
    /\ [][\A t \in Tasks :
            /\ (Acquires(t) /\ sem.count = 0) =>
                  /\ sem' = [sem EXCEPT !.tasks = Append(@, t)]
                  /\ pc' = [pc EXCEPT ![t] = "waiting"]
                  /\ microtasks' = microtasks
            /\ (pc[t] = "waiting" /\ pc'[t] # "waiting") =>
                  /\ \E u \in Tasks \ {t} : Releases(u)
                  /\ Head(sem.tasks) = t
                  /\ sem'.tasks = Tail(sem.tasks)
                  /\ pc'[t] = "granted"
            /\ (pc[t] = "waiting" /\ \E u \in Tasks : Acquires(u)) =>
                  pc'[t] = "waiting"]_vars

\* C23 witness: two requests wait behind a held slot, in the order they came.
C23_Witness ==
    /\ sem.count = 0
    /\ Len(sem.tasks) = 2
    /\ sem.tasks = waitOrder
    /\ \A i \in 1..2 : pc[sem.tasks[i]] = "waiting"
    /\ Cardinality(Holding) = max

\* C24: request lifecycle. A request is pending (waiting), then granted
\* (granted, holding), then done, and only moves forward: its resume is
\* called once, in the step that takes it out of the queue, and a request
\* that was granted is never in the queue again.
C24_Lifecycle ==
    /\ [](\A t \in Tasks : pc[t] \in {"granted", "holding"} => t \notin Range(sem.tasks))
    /\ [][\A t \in Tasks :
            /\ pc[t] = "waiting" => pc'[t] \in {"waiting", "granted"}
            /\ pc[t] = "granted" => pc'[t] \in {"granted", "holding"}
            /\ pc[t] = "holding" => pc'[t] \in {"holding", "done", "yielded"}
            /\ LET resumes == IF \E u \in Tasks : Releases(u)
                              THEN {i \in (Len(microtasks) + 1)..Len(microtasks') :
                                      microtasks'[i].task = t}
                              ELSE {}
               IN /\ Cardinality(resumes) <= 1
                  /\ (pc[t] = "waiting" /\ pc'[t] = "granted") <=> resumes # {}
                  /\ resumes # {} =>
                       /\ Head(sem.tasks) = t
                       /\ t \notin Range(sem'.tasks)]_vars

\* C24 witness: the three stages at once: one request is done, one holds the
\* only slot, one is pending in the queue.
C24_Witness ==
    /\ variant = "promise"
    /\ max = 1
    /\ \E t, u \in Tasks :
         /\ t # u
         /\ pc[t] = "waiting" /\ sem.tasks = <<t>>
         /\ pc[u] = "holding"
         /\ \A w \in Tasks \ {t, u} : pc[w] = "done"
\* C25: atomic critical sections. No task is ever suspended between the test
\* of count and the update that follows it: the step that tests count also
\* decrements it or appends the request; a task that is resumed leaves count
\* and the queue alone; and the last free slot is granted to one task only,
\* count never going below 0.
C25_Atomic ==
    /\ [](/\ \A t \in Tasks : pc[t] # "paused" /\ at[t] = <<>>
          /\ sem.count >= 0
          /\ Cardinality(Granted) <= max)
    /\ [][\A t \in Tasks :
            /\ Acquires(t) =>
                 IF sem.count > 0
                 THEN sem' = [sem EXCEPT !.count = @ - 1] /\ pc'[t] = "granted"
                 ELSE sem' = [sem EXCEPT !.tasks = Append(@, t)] /\ pc'[t] = "waiting"
            /\ (Acquires(t) /\ sem.count = 1) =>
                 /\ sem'.count = 0
                 /\ \A u \in Tasks \ {t} : pc'[u] = pc[u]
                 /\ \A u \in Tasks : ~AcquireOf(variant, sem', u).settled
            /\ (pc[t] = "granted" /\ pc'[t] = "holding") => sem' = sem
            /\ (\A u \in Tasks : ~Acquires(u) /\ ~Releases(u)) => sem' = sem]_vars

\* C25 witness: three tasks called acquire in one job with one slot free: the
\* first was granted it and has not run yet, the other two are queued.
C25_Witness ==
    /\ max = 1
    /\ sem.count = 0
    /\ Len(microtasks) = 1
    /\ \E t \in Tasks :
         /\ pc[t] = "granted"
         /\ microtasks[1] = [task |-> t, ticks |-> ResumeTicks(variant, FALSE)]
         /\ \A u \in Tasks \ {t} : pc[u] = "waiting"
    /\ Len(sem.tasks) = n - 1
\* C26: construction performs no validation. For any integer capacity the
\* constructor yields count = capacity and an empty queue; with capacity <= 0
\* every acquire is queued, and a request is granted only by a release call.
C26_NoValidation ==
    /\ sem.count = max /\ sem.tasks = <<>>
    /\ [][max <= 0 =>
            \A t \in Tasks :
               /\ Acquires(t) => pc'[t] = "waiting" /\ sem'.tasks = Append(sem.tasks, t)
               /\ (pc[t] # "granted" /\ pc'[t] = "granted") =>
                     (strays' > strays \/ \E u \in Tasks : Releases(u))]_vars

\* C26 as amended: with capacity <= 0 every acquire that finds count <= 0 is
\* queued, which is every acquire made before any release call; an acquire is
\* granted at once only after release calls on an empty queue have raised
\* count above 0, and a queued request is granted only by a release call.
C26_NoValidationAmended ==
    /\ sem.count = max /\ sem.tasks = <<>>
    /\ [][max <= 0 =>
            \A t \in Tasks :
               /\ (Acquires(t) /\ (sem.count <= 0 \/ strays = 0)) =>
                     pc'[t] = "waiting" /\ sem'.tasks = Append(sem.tasks, t)
               /\ (Acquires(t) /\ pc'[t] = "granted") =>
                     /\ sem.count > 0
                     /\ strays > 0 - max
                     /\ sem'.count = sem.count - 1
               /\ (pc[t] = "waiting" /\ pc'[t] # "waiting") =>
                     /\ strays' > strays \/ \E u \in Tasks : Releases(u)
                     /\ Head(sem.tasks) = t]_vars

\* C26 witness: a semaphore constructed with capacity 0 has a holder, granted
\* through a release call, and a request still queued.
C26_Witness ==
    /\ max = 0
    /\ strays = 1
    /\ sem.count = 0
    /\ \E t, u \in Tasks : pc[t] = "holding" /\ pc[u] = "waiting" /\ sem.tasks = <<u>>
\* Steps of a task t on its iterator: it advances it; the loop closes it.
Advances(t) == pc[t] \in {"created", "yielded"} /\ pc'[t] \in {"granted", "waiting"}
Closes(t) == pc[t] \in {"holding", "yielded"} /\ pc'[t] \in {"leaked", "done"}

\* C27: lazy iterator. Calling acquire() of SimpleGeneratorSemaphore changes
\* neither count nor the queue; only an advance of the iterator takes a slot
\* or queues a request, and each advance does exactly one of the two, once.
C27_Lazy ==
    [][\A t \in Tasks :
         /\ (pc[t] \in {"idle", "done"} /\ pc'[t] = "created") =>
               /\ sem' = sem
               /\ microtasks' = microtasks
               /\ waitOrder' = waitOrder
         /\ Advances(t) =>
               IF sem.count > 0
               THEN sem' = [sem EXCEPT !.count = @ - 1] /\ pc'[t] = "granted"
               ELSE sem' = [sem EXCEPT !.tasks = Append(@, t)] /\ pc'[t] = "waiting"
         /\ (sem'.count < sem.count \/ Len(sem'.tasks) > Len(sem.tasks)) =>
               \E u \in Tasks : Advances(u)]_vars

\* C27 witness: every task has called acquire(); one advanced its iterator and
\* holds a slot, the others did not and nothing else was taken or queued.
C27_Witness ==
    /\ \E t \in Tasks :
         /\ pc[t] = "holding"
         /\ \A u \in Tasks \ {t} : pc[u] = "created"
    /\ sem.count = max - 1
    /\ sem.tasks = <<>>

\* C28: stopping iteration does not release. Closing the iterator (break or
\* return out of the for-await loop) changes neither count nor the queue and
\* resumes nobody; count grows and requests are dequeued only in release()
\* steps, so the slot of a task that left without release() stays taken.
C28_BreakKeepsSlot ==
    /\ [](sem.count + Cardinality(Granted) + Cardinality(Leaked) = max)
    /\ [][/\ \A t \in Tasks :
               Closes(t) =>
                  /\ sem' = sem
                  /\ microtasks' = microtasks
                  /\ \A u \in Tasks \ {t} : pc'[u] = pc[u]
          /\ (sem'.count > sem.count \/ Len(sem'.tasks) < Len(sem.tasks)) =>
               \E u \in Tasks : Releases(u)
          /\ \A t \in Leaked : pc'[t] = "leaked"]_vars

\* C28 witness: the only slot belongs to a task that broke out of its loop
\* without release(), and a request waits for it.
C28_Witness ==
    /\ max = 1
    /\ sem.count = 0
    /\ \E t, u \in Tasks : pc[t] = "leaked" /\ iter[t] = "none" /\ pc[u] = "waiting"
\* The ids of the listeners a trace shows called by the setState call from
\* outside, in the order of the calls.
RoundOf(tr) ==
    LET InRound(e) == e.ev = "listener" /\ e.call = 1
        called == SelectSeq(tr, InRound)
    IN [i \in 1..Len(called) |-> called[i].id]

\* C29: Mug notification uses a snapshot. In a setState(key, _) call from
\* outside, the listeners are called in subscription order, each at most once;
\* one that was subscribed when the call started and that a listener
\* unsubscribed during the round is still called in the round; one subscribed
\* during the round is not called in it.
C29_Snapshot ==
    [][(trace' # <<>> /\ trace'[1].ev = "setState") =>
         LET snapshot == Subscribed(mug, trace'[1].key)
             round == RoundOf(trace')
         IN /\ \A i, j \in DOMAIN round : i < j => round[i] < round[j]
            /\ Range(round) \subseteq snapshot
            /\ \A p \in DOMAIN trace' :
                 (/\ trace'[p].ev = "unsubscribe"
                  /\ trace'[p].call = 1
                  /\ trace'[p].id \in snapshot) => trace'[p].id \in Range(round)]_vars
====
